---- MODULE Spec2Model ----
(***************************************************************************)
(* Parallel research workflow (graph/workflow.py) executed by the graph    *)
(* engine in supersteps, and the HTTP streaming generator                  *)
(* stream_langgraph_response (api/endpoints.py) that consumes its events.  *)
(*                                                                         *)
(* Text is modelled as a sequence of tokens; string concatenation is \o.   *)
(***************************************************************************)
EXTENDS Integers, Sequences, FiniteSets, TLC

\* ---------------------------------------------------------------- bounds
MaxFrags == 2

\* Exception messages, model texts and streamed fragments drawn by the environment
Errs == {"boom"}
Datas == {<<>>, <<"findings">>}
Frags == {"tok"}

Workers == {"seo", "social", "competitor"}
Agents == Workers \cup {"guardrail"}
\* The two model calls of synthesis_node / fallback_node: the streamed run and the plain run
ResponderCalls == {"stream", "run"}
ResearchNodes == {"seo_research_node", "social_research_node", "competitor_research_node"}
Nodes == {"guardrail_node", "synthesis_node", "fallback_node"} \cup ResearchNodes

NodeOf(w) == w \o "_research_node"

NoState == [none |-> TRUE]

VARIABLES
    st,              \* ParallelAgentState channels
    active,          \* nodes scheduled in the current superstep
    npc,             \* position of each node's coroutine
    writes,          \* updates returned in the current superstep, in completion order
    wf,              \* the workflow run: pending, running, finished, raised
    agent_out,       \* what each agent call (guardrail, research agents) did
    synthesis_prompt,\* the research data synthesis_node read
    node_full,       \* full_response local of synthesis_node / fallback_node
    nfrags,          \* fragments streamed by the running model request
    spc,             \* position of stream_langgraph_response
    full_response,   \* full_response local of stream_langgraph_response
    final_state,     \* last "values" snapshot seen by the generator
    chunks,          \* chunks yielded to the client so far
    title_task,      \* title generation task handed to the generator
    langfuse,        \* whether the tracing client is configured
    messages,        \* rows stored in the messages table by this request
    search,          \* one search_web tool call of a research agent
    request,         \* the AgentRequest posted to the endpoint
    http_client,     \* whether the global HTTP client was initialised at startup
    auth_response,   \* how the identity service answered verify_token's call
    user,            \* what verify_token returned
    epc,             \* where the request is in verify_token and the endpoint body
    session_id,      \* the endpoint's local session_id
    conversation_record, \* whether create_conversation returned a record
    db,              \* the persistence calls made for the request, in order
    rate_check,      \* what check_rate_limit read and returned
    request_tracking_task, \* the background store_request task
    requests_table,  \* the user's rows of the last minute in the requests table
    error,           \* the exception caught by the endpoint's except branch
    response,        \* what the client of the request gets
    rq,              \* concurrent requests of one user at the rate limiter
    embedding_client,\* whether the global embedding client is set
    supabase,        \* whether the global persistence client is set
    title_agent,     \* whether the global title agent is set
    health,          \* one call of the health endpoint
    workflow_task,   \* the task running workflow_func with the StreamBridge
    written,         \* the chunks passed to StreamBridge.write, in call order
    put_tasks,       \* the scheduled _chunks.put tasks that have not run yet
    bridge_chunks,   \* StreamBridge._chunks
    bridge_completed,\* StreamBridge._completed
    bridge_final_data, \* StreamBridge._final_data
    reader,          \* where stream_http is
    yielded,         \* what stream_http has yielded
    generator,       \* where stream_workflow_response is, and the error chunks it yielded
    hil_state,       \* the channels of HumanInLoopState that hold a value
    hil_pc,          \* where the human-in-the-loop graph is
    human_input,     \* what interrupt() returned at the approval gate
    hil_ran          \* the nodes of the human-in-the-loop graph that have run

vars == <<st, active, npc, writes, wf, agent_out, synthesis_prompt, node_full, nfrags,
          spc, full_response, final_state, chunks, title_task, langfuse, messages>>

wfvars == <<st, active, npc, writes, wf, agent_out, synthesis_prompt, node_full, nfrags>>

\* No search_web call in progress
SearchIdle == search = [phase |-> "idle"]

\* The variables of the other components, which the workflow and the generator leave alone
health_vars == <<embedding_client, supabase, title_agent, health>>

bridge_vars ==
    <<workflow_task, written, put_tasks, bridge_chunks, bridge_completed, bridge_final_data,
      reader, yielded, generator>>

hil_vars == <<hil_state, hil_pc, human_input, hil_ran>>

\* The health endpoint, the StreamBridge and the human-in-the-loop example
other_components == <<health_vars, bridge_vars, hil_vars>>

outside_workflow ==
    <<search, request, http_client, auth_response, user, epc, session_id, conversation_record, db,
      rate_check, request_tracking_task, requests_table, error, response, rq, other_components>>

\* The endpoint's variables, apart from the requests table
endpoint_vars ==
    <<request, http_client, auth_response, user, epc, session_id, conversation_record, db,
      rate_check, request_tracking_task, error, response>>

NoUser == [verified |-> FALSE]

NoResponse == [kind |-> "pending"]

\* No request is being followed through verify_token and the endpoint body
EndpointIdle ==
    /\ request = [user_id |-> "", session_id |-> ""]
    /\ http_client = TRUE
    /\ auth_response = "not_called"
    /\ user = NoUser
    /\ epc = "idle"
    /\ session_id = "unbound"
    /\ conversation_record = FALSE
    /\ db = <<>>
    /\ rate_check = [called |-> FALSE]
    /\ request_tracking_task = "none"
    /\ error = "none"
    /\ response = NoResponse

\* No concurrent requests at the rate limiter
RateIdle == rq = <<>>

\* The lifespan has set the clients; the health endpoint is not being called
HealthIdle ==
    /\ embedding_client = TRUE
    /\ supabase = TRUE
    /\ title_agent = TRUE
    /\ health = [phase |-> "idle"]

\* No StreamBridge is in use
BridgeIdle ==
    /\ workflow_task = "none"
    /\ written = <<>>
    /\ put_tasks = <<>>
    /\ bridge_chunks = <<>>
    /\ bridge_completed = FALSE
    /\ bridge_final_data = "None"
    /\ reader = "idle"
    /\ yielded = <<>>
    /\ generator = [pc |-> "idle", errors |-> <<>>]

\* The human-in-the-loop graph is not running
HilIdle ==
    /\ hil_state = <<>>
    /\ hil_pc = "idle"
    /\ human_input = [kind |-> "not_asked"]
    /\ hil_ran = <<>>

OthersIdle == HealthIdle /\ BridgeIdle /\ HilIdle

\* ------------------------------------------------------------ state schema
\* Channels declared with Annotated[..., operator.add]
ReducerKeys == {"seo_research", "social_research", "competitor_research", "research_completed"}

create_api_initial_state ==
    [ is_research_request |-> FALSE,
      routing_reason      |-> <<>>,
      seo_research        |-> <<>>,
      social_research     |-> <<>>,
      competitor_research |-> <<>>,
      research_completed  |-> <<>>,
      synthesis_complete  |-> FALSE,
      final_response      |-> <<>>,
      message_history     |-> <<>> ]

\* dict.get(key, default)
Get(d, key, default) == IF key \in DOMAIN d THEN d[key] ELSE default

\* Variant: the channels are declared without operator.add, every update overwrites
ApplyUpdate_overwrite(s, upd) ==
    [k \in DOMAIN s |-> IF k \in DOMAIN upd THEN upd[k] ELSE s[k]]

\* One update merged into the state: operator.add channels concatenate, the others overwrite
ApplyUpdate(s, upd) ==
    [k \in DOMAIN s |->
        IF k \in DOMAIN upd
        THEN IF k \in ReducerKeys THEN s[k] \o upd[k] ELSE upd[k]
        ELSE s[k]]

RECURSIVE ApplyWrites(_, _)
ApplyWrites(s, ws) ==
    IF ws = <<>> THEN s
    ELSE ApplyWrites(ApplyUpdate(s, Head(ws).upd), Tail(ws))

\* ' '.join(list of texts)
RECURSIVE Join(_)
Join(xs) ==
    IF xs = <<>> THEN <<>>
    ELSE IF Len(xs) = 1 THEN xs[1]
    ELSE xs[1] \o <<" ">> \o Join(Tail(xs))

\* Variant: the result is taken as it is, empty or not
ResultText_raw(data) == data

\* str(run.data) if run.data else "No response generated"
ResultText(data) == IF data = <<>> THEN <<"No response generated">> ELSE data

\* ------------------------------------------------------- graph/workflow.py
WorkerField(w) == w \o "_research"

ErrorMarker(w) ==
    CASE w = "seo"        -> "SEO Research error: "
      [] w = "social"     -> "Social Research error: "
      [] w = "competitor" -> "Competitor Research error: "

StartBanner(w) ==
    CASE w = "seo"        -> "### SEO Research Agent Starting..."
      [] w = "social"     -> "### Social Media Research Agent Starting..."
      [] w = "competitor" -> "### Competitor Research Agent Starting..."

\* guardrail_node, try branch: the classifier answered
guardrail_return(decision, reasoning) ==
    [is_research_request |-> decision, routing_reason |-> reasoning]

\* Variant: the except branch lets the request through to research
guardrail_except_research(e) ==
    [is_research_request |-> TRUE, routing_reason |-> <<"Guardrail error: ", e>>]

\* guardrail_node, except branch
guardrail_except(e) ==
    [is_research_request |-> FALSE, routing_reason |-> <<"Guardrail error: ", e>>]

\* Variant: the copied worker bodies all keep the first worker's field name
research_return_shared_field(w, data) ==
    ("seo_research" :> <<ResultText(data)>>) @@ ("research_completed" :> <<w>>)

\* <worker>_research_node, try branch
research_return(w, data) ==
    (WorkerField(w) :> <<ResultText(data)>>) @@ ("research_completed" :> <<w>>)

\* Variant: the except branch reports the plain completion tag
research_except_untagged(w, e) ==
    (WorkerField(w) :> << <<ErrorMarker(w), e>> >>) @@ ("research_completed" :> <<w>>)

\* <worker>_research_node, except branch
research_except(w, e) ==
    (WorkerField(w) :> << <<ErrorMarker(w), e>> >>) @@ ("research_completed" :> <<w \o "_error">>)

\* Variant: social_data is read from the SEO channel
synthesis_inputs_copy_paste(s) ==
    [ seo_data        |-> Join(Get(s, "seo_research", <<>>)),
      social_data     |-> Join(Get(s, "seo_research", <<>>)),
      competitor_data |-> Join(Get(s, "competitor_research", <<>>)) ]

\* synthesis_node: the research data placed in the synthesis prompt
synthesis_inputs(s) ==
    [ seo_data        |-> Join(Get(s, "seo_research", <<>>)),
      social_data     |-> Join(Get(s, "social_research", <<>>)),
      competitor_data |-> Join(Get(s, "competitor_research", <<>>)) ]

\* Variant: the normal return leaves synthesis_complete unset
responder_return_incomplete(n, full, new_messages) ==
    IF n = "synthesis_node"
    THEN [final_response |-> full, synthesis_complete |-> FALSE, message_history |-> <<new_messages>>]
    ELSE [final_response |-> full, message_history |-> <<new_messages>>]

\* Variant: fallback_node is given synthesis_node's return statement
responder_return_copied(n, full, new_messages) ==
    [final_response |-> full, synthesis_complete |-> TRUE, message_history |-> <<new_messages>>]

\* synthesis_node / fallback_node, normal return
responder_return(n, full, new_messages) ==
    IF n = "synthesis_node"
    THEN [final_response |-> full, synthesis_complete |-> TRUE, message_history |-> <<new_messages>>]
    ELSE [final_response |-> full, message_history |-> <<new_messages>>]

\* Variant: the outer except branch reports the node as complete
responder_except_complete(n, e) ==
    IF n = "synthesis_node"
    THEN [final_response |-> <<"Synthesis error: ", e>>, synthesis_complete |-> TRUE,
          message_history |-> <<>>]
    ELSE [final_response |-> <<"Fallback error: ", e>>, message_history |-> <<>>]

\* synthesis_node / fallback_node, outer except branch
responder_except(n, e) ==
    IF n = "synthesis_node"
    THEN [final_response |-> <<"Synthesis error: ", e>>, synthesis_complete |-> FALSE,
          message_history |-> <<>>]
    ELSE [final_response |-> <<"Fallback error: ", e>>, message_history |-> <<>>]

ResponderBanner(n) ==
    IF n = "synthesis_node" THEN "### Synthesis Agent Starting..."
    ELSE "Conversation Agent Starting..."

\* Variant: the competitor worker is left out of the fan-out
route_after_guardrail_two(s) ==
    IF Get(s, "is_research_request", FALSE)
    THEN {"seo_research_node", "social_research_node"}
    ELSE {"fallback_node"}

\* Variant: the two branches are swapped
route_after_guardrail_inverted(s) ==
    IF Get(s, "is_research_request", FALSE)
    THEN {"fallback_node"}
    ELSE {"seo_research_node", "social_research_node", "competitor_research_node"}

route_after_guardrail(s) ==
    IF Get(s, "is_research_request", FALSE)
    THEN {"seo_research_node", "social_research_node", "competitor_research_node"}
    ELSE {"fallback_node"}

\* create_workflow: the nodes an edge leads to from node n (END is the empty set)
Successors(n, s) ==
    CASE n = "guardrail_node" -> route_after_guardrail(s)
      [] n \in ResearchNodes  -> {"synthesis_node"}
      [] n = "synthesis_node" -> {}
      [] n = "fallback_node"  -> {}

\* ---------------------------------------- api/endpoints.py, the generator
TextChunk(txt) == [text |-> txt]

\* One "custom" event handled by the streaming loop: str and decodable bytes are
\* appended to full_response and the accumulated text is yielded; undecodable
\* bytes are yielded as they are.
OnCustom(acc, ev) ==
    IF ev.kind \in {"str", "bytes"}
    THEN [full |-> acc.full \o ev.data, out |-> Append(acc.out, TextChunk(acc.full \o ev.data))]
    ELSE [full |-> acc.full, out |-> Append(acc.out, [raw |-> ev.data])]

RECURSIVE OnCustomAll(_, _)
OnCustomAll(acc, evs) ==
    IF evs = <<>> THEN acc ELSE OnCustomAll(OnCustom(acc, Head(evs)), Tail(evs))

Str(tok) == [kind |-> "str", data |-> <<tok>>]
StrText(txt) == [kind |-> "str", data |-> txt]

\* writer(...) calls of a node, in order, as consumed by the generator
Writer(evs) ==
    LET acc == OnCustomAll([full |-> full_response, out |-> chunks], evs)
    IN  /\ full_response' = acc.full
        /\ chunks' = acc.out

\* The outer except branch of stream_langgraph_response
ErrorChunk(e) == TextChunk(<<"Streaming error: ", e>>)

RoutingDecision(fs) ==
    IF fs # NoState THEN Get(fs, "routing_decision", "unknown") ELSE "unknown"

FinalChunk(title, full, fs) ==
    [ session_id         |-> "session",
      conversation_title |-> title,
      complete           |-> TRUE,
      request_id         |-> "request",
      final_response     |-> full,
      routing_decision   |-> RoutingDecision(fs) ]

\* Row stored for the agent's response
AiMessage(full, fs) ==
    [ message_type     |-> "ai",
      content          |-> IF full = <<>> THEN <<"No response generated">> ELSE full,
      message_data     |-> LET md == IF fs # NoState THEN Get(fs, "message_history", <<>>) ELSE <<>>
                           IN  IF md # <<>> THEN md[1] ELSE "None",
      routing_decision |-> RoutingDecision(fs) ]

\* ------------------------------------------------------------------ Init
\* The endpoint hands the generator create_api_initial_state(...) and, for a
\* new conversation only, a title task; langfuse is set or not at startup.
Init ==
    /\ st = create_api_initial_state
    /\ active = {}
    /\ npc = [n \in Nodes |-> "idle"]
    /\ writes = <<>>
    /\ wf = "pending"
    /\ agent_out = [w \in Agents \cup ResponderCalls |-> [kind |-> "none", val |-> <<>>]]
    /\ synthesis_prompt = NoState
    /\ node_full = <<>>
    /\ nfrags = 0
    /\ spc = "pending"
    /\ full_response = <<>>
    /\ final_state = NoState
    /\ chunks = <<>>
    /\ title_task \in {"none", "task"}
    /\ langfuse \in BOOLEAN
    /\ messages = <<>>
    /\ SearchIdle
    /\ EndpointIdle
    /\ requests_table = 0
    /\ RateIdle
    /\ OthersIdle

\* --------------------------------------------------- the workflow's steps
Running(n) == spc = "streaming" /\ wf = "running" /\ n \in active

Return(n, upd) ==
    /\ npc' = [npc EXCEPT ![n] = "returned"]
    /\ writes' = Append(writes, [node |-> n, upd |-> upd])

\* The generator is first iterated: it enters the try block and calls workflow.astream
StreamStart ==
    /\ spc = "pending"
    /\ spc' = "streaming"
    /\ UNCHANGED <<wfvars, full_response, final_state, chunks, title_task, langfuse, messages>>
    /\ UNCHANGED outside_workflow

\* astream applies the input and emits the first "values" snapshot; START -> guardrail_node
WorkflowBegin ==
    /\ spc = "streaming" /\ wf = "pending"
    /\ wf' = "running"
    /\ active' = {"guardrail_node"}
    /\ final_state' = st
    /\ UNCHANGED <<st, npc, writes, agent_out, synthesis_prompt, node_full, nfrags,
                   spc, full_response, chunks, title_task, langfuse, messages>>
    /\ UNCHANGED outside_workflow

guardrail_node ==
    /\ Running("guardrail_node") /\ npc["guardrail_node"] = "idle"
    /\ \/ \E decision \in BOOLEAN :
            /\ agent_out' = [agent_out EXCEPT !["guardrail"] = [kind |-> "ok", val |-> <<>>]]
            /\ Writer(<<Str(IF decision THEN "Detected research request."
                                        ELSE "Routing to conversation mode...")>>)
            /\ Return("guardrail_node", guardrail_return(decision, <<"reasoning">>))
       \/ \E e \in Errs :
            /\ agent_out' = [agent_out EXCEPT !["guardrail"] = [kind |-> "raised", val |-> <<e>>]]
            /\ Writer(<<Str("Guardrail failed, defaulting to conversation mode")>>)
            /\ Return("guardrail_node", guardrail_except(e))
    /\ UNCHANGED <<st, active, wf, synthesis_prompt, node_full, nfrags,
                   spc, final_state, title_task, langfuse, messages>>
    /\ UNCHANGED outside_workflow

\* <worker>_research_node up to its await of the agent run
research_node_start(w) ==
    /\ Running(NodeOf(w)) /\ npc[NodeOf(w)] = "idle"
    /\ Writer(<<Str(StartBanner(w))>>)
    /\ npc' = [npc EXCEPT ![NodeOf(w)] = "awaiting"]
    /\ UNCHANGED <<st, active, writes, wf, agent_out, synthesis_prompt, node_full, nfrags,
                   spc, final_state, title_task, langfuse, messages>>
    /\ UNCHANGED outside_workflow

\* <worker>_research_node after the agent run answered or raised
research_node_finish(w) ==
    /\ Running(NodeOf(w)) /\ npc[NodeOf(w)] = "awaiting"
    /\ \/ \E data \in Datas :
            /\ agent_out' = [agent_out EXCEPT ![w] = [kind |-> "ok", val |-> data]]
            /\ Return(NodeOf(w), research_return(w, data))
            /\ UNCHANGED <<full_response, chunks>>
       \/ \E e \in Errs :
            /\ agent_out' = [agent_out EXCEPT ![w] = [kind |-> "raised", val |-> <<e>>]]
            /\ Writer(<<StrText(<<ErrorMarker(w), e>>)>>)
            /\ Return(NodeOf(w), research_except(w, e))
    /\ UNCHANGED <<st, active, wf, synthesis_prompt, node_full, nfrags,
                   spc, final_state, title_task, langfuse, messages>>
    /\ UNCHANGED outside_workflow

Responders == {"synthesis_node", "fallback_node"}

\* synthesis_node / fallback_node up to the start of the streamed run
responder_start(n) ==
    /\ Running(n) /\ npc[n] = "idle"
    /\ Writer(<<Str(ResponderBanner(n))>>)
    /\ synthesis_prompt' = IF n = "synthesis_node" THEN synthesis_inputs(st) ELSE synthesis_prompt
    /\ node_full' = <<>>
    /\ nfrags' = 0
    /\ npc' = [npc EXCEPT ![n] = "streaming"]
    /\ UNCHANGED <<st, active, writes, wf, agent_out, spc, final_state, title_task,
                   langfuse, messages>>
    /\ UNCHANGED outside_workflow

\* one text event of the streamed model request
responder_fragment(n) ==
    /\ Running(n) /\ npc[n] = "streaming"
    /\ nfrags < MaxFrags
    /\ \E f \in Frags :
            /\ Writer(<<Str(f)>>)
            /\ node_full' = node_full \o <<f>>
    /\ nfrags' = nfrags + 1
    /\ UNCHANGED <<st, active, npc, writes, wf, agent_out, synthesis_prompt,
                   spc, final_state, title_task, langfuse, messages>>
    /\ UNCHANGED outside_workflow

CompletionEvents(n) ==
    IF n = "synthesis_node" THEN <<Str("### Research synthesis completed.")>> ELSE <<>>

\* the streamed run ended normally
responder_stream_done(n) ==
    /\ Running(n) /\ npc[n] = "streaming"
    /\ agent_out' = [agent_out EXCEPT !["stream"] = [kind |-> "ok", val |-> node_full]]
    /\ Writer(CompletionEvents(n))
    /\ Return(n, responder_return(n, node_full, "new_messages"))
    /\ UNCHANGED <<st, active, wf, synthesis_prompt, node_full, nfrags,
                   spc, final_state, title_task, langfuse, messages>>
    /\ UNCHANGED outside_workflow

StreamingUnavailable == "[Streaming unavailable, generating response...]"

\* the streamed run raised: inner except branch up to the await of the plain run
responder_stream_failed(n) ==
    /\ Running(n) /\ npc[n] = "streaming"
    /\ \E e \in Errs : agent_out' = [agent_out EXCEPT !["stream"] = [kind |-> "raised", val |-> <<e>>]]
    /\ Writer(<<Str(StreamingUnavailable)>>)
    /\ npc' = [npc EXCEPT ![n] = "fallback_run"]
    /\ UNCHANGED <<st, active, writes, wf, synthesis_prompt, node_full, nfrags,
                   spc, final_state, title_task, langfuse, messages>>
    /\ UNCHANGED outside_workflow

\* the plain run answered, or raised into the outer except branch
responder_fallback_finish(n) ==
    /\ Running(n) /\ npc[n] = "fallback_run"
    /\ \/ \E data \in Datas :
            /\ agent_out' = [agent_out EXCEPT !["run"] = [kind |-> "ok", val |-> data]]
            /\ node_full' = ResultText(data)
            /\ Writer(<<StrText(ResultText(data))>> \o CompletionEvents(n))
            /\ Return(n, responder_return(n, ResultText(data), "new_messages"))
       \/ \E e \in Errs :
            /\ agent_out' = [agent_out EXCEPT !["run"] = [kind |-> "raised", val |-> <<e>>]]
            /\ Writer(<<StrText(responder_except(n, e).final_response)>>)
            /\ Return(n, responder_except(n, e))
            /\ UNCHANGED node_full
    /\ UNCHANGED <<st, active, wf, synthesis_prompt, nfrags,
                   spc, final_state, title_task, langfuse, messages>>
    /\ UNCHANGED outside_workflow

\* End of a superstep: every scheduled node has returned; the updates are merged,
\* a "values" snapshot is emitted and the successors are scheduled.
superstep_end ==
    /\ spc = "streaming" /\ wf = "running"
    /\ active # {}
    /\ \A n \in active : npc[n] = "returned"
    /\ LET merged == ApplyWrites(st, writes)
           next   == UNION {Successors(n, merged) : n \in active}
       IN  /\ st' = merged
           /\ final_state' = merged
           /\ active' = next
           /\ wf' = IF next = {} THEN "finished" ELSE "running"
    /\ npc' = [n \in Nodes |-> IF n \in active THEN "done" ELSE npc[n]]
    /\ writes' = <<>>
    /\ UNCHANGED <<agent_out, synthesis_prompt, node_full, nfrags,
                   spc, full_response, chunks, title_task, langfuse, messages>>
    /\ UNCHANGED outside_workflow

\* ------------------------------------- stream_langgraph_response's steps
\* Variant: no outer except branch, the exception leaves the generator
workflow_raises_unhandled ==
    /\ spc = "streaming" /\ wf \in {"pending", "running"}
    /\ wf' = "raised"
    /\ spc' = "escaped"
    /\ UNCHANGED <<st, active, npc, writes, agent_out, synthesis_prompt, node_full, nfrags,
                   full_response, final_state, chunks, title_task, langfuse, messages>>
    /\ UNCHANGED outside_workflow

\* workflow.astream raises inside the async for: the outer except branch yields
\* the error chunk and the generator returns
workflow_raises ==
    /\ spc = "streaming" /\ wf \in {"pending", "running"}
    /\ \E e \in Errs : chunks' = Append(chunks, ErrorChunk(e))
    /\ wf' = "raised"
    /\ spc' = "errored"
    /\ UNCHANGED <<st, active, npc, writes, agent_out, synthesis_prompt, node_full, nfrags,
                   full_response, final_state, title_task, langfuse, messages>>
    /\ UNCHANGED outside_workflow

\* The async for ends; with tracing configured span.update may raise into the
\* outer except branch
stream_loop_end ==
    /\ spc = "streaming" /\ wf = "finished"
    /\ \/ /\ spc' = "store"
          /\ UNCHANGED chunks
       \/ /\ langfuse
          /\ \E e \in Errs : chunks' = Append(chunks, ErrorChunk(e))
          /\ spc' = "errored"
    /\ UNCHANGED <<wfvars, full_response, final_state, title_task, langfuse, messages>>
    /\ UNCHANGED outside_workflow

\* store_message for the agent's response; a failure is caught and logged
store_response ==
    /\ spc = "store"
    /\ \/ messages' = Append(messages, AiMessage(full_response, final_state))
       \/ UNCHANGED messages
    /\ spc' = IF title_task # "none" THEN "title" ELSE "tracking"
    /\ UNCHANGED <<wfvars, full_response, final_state, chunks, title_task, langfuse>>
    /\ UNCHANGED outside_workflow

\* generate_conversation_title never raises: it returns the fallback title instead
Titles == {"Generated title", "New Conversation"}

\* if title_task: await it, update the conversation title, yield the final chunk;
\* a failure of the update is caught and logged, and the chunk is not yielded
title_step ==
    /\ spc = "title"
    /\ \E conversation_title \in Titles :
          \/ chunks' = Append(chunks, FinalChunk(conversation_title, full_response, final_state))
          \/ UNCHANGED chunks
    /\ spc' = "tracking"
    /\ UNCHANGED <<wfvars, full_response, final_state, title_task, langfuse, messages>>
    /\ UNCHANGED outside_workflow

\* await request_tracking_task; a failure is caught and logged
tracking_step ==
    /\ spc = "tracking"
    /\ spc' = "complete"
    /\ UNCHANGED <<wfvars, full_response, final_state, chunks, title_task, langfuse, messages>>
    /\ UNCHANGED outside_workflow

Next ==
    \/ StreamStart
    \/ WorkflowBegin
    \/ guardrail_node
    \/ \E w \in Workers : research_node_start(w)
    \/ \E w \in Workers : research_node_finish(w)
    \/ \E n \in Responders : responder_start(n)
    \/ \E n \in Responders : responder_fragment(n)
    \/ \E n \in Responders : responder_stream_done(n)
    \/ \E n \in Responders : responder_stream_failed(n)
    \/ \E n \in Responders : responder_fallback_finish(n)
    \/ superstep_end
    \/ workflow_raises
    \/ stream_loop_end
    \/ store_response
    \/ title_step
    \/ tracking_step

Spec == Init /\ [][Next]_vars

\* ------------------------------------ parallel_research_agents/main.py
\* ParallelResearchState channels declared with Annotated[..., operator.add]
ExampleReducerKeys == {"messages", "research_results"}

\* seo_research_agent / social_media_research_agent / competitor_research_agent: the
\* update each returns
example_agent_return(a) ==
    [ messages         |-> <<a \o ": completed">>,
      research_results |-> <<[agent |-> a, status |-> "completed"]>>,
      completed_agents |-> <<a>> ]

\* ================================================================ claims
Tag(w) == IF agent_out[w].kind = "raised" THEN w \o "_error" ELSE w

Started(n) == npc[n] # "idle"

Raised == {w \in Workers : agent_out[w].kind = "raised"}

AllReported == \A n \in ResearchNodes : npc[n] = "done"

\* C1: whenever synthesis_node has started, research_completed holds exactly three
\* entries, one per research worker (plain or error tag): the join never lets
\* synthesis run on a first or partial result.
C1_SynthesisWaitsForAll ==
    Started("synthesis_node") =>
        /\ st.is_research_request
        /\ Len(st.research_completed) = 3
        /\ \A w \in Workers :
              Cardinality({i \in 1..Len(st.research_completed) :
                              st.research_completed[i] \in {w, w \o "_error"}}) = 1

C1_Witness ==
    /\ npc["synthesis_node"] = "streaming"
    /\ Raised # {}
    /\ Len(st.research_completed) = 3

\* C2: a guardrail decision of false activates fallback_node only (no research
\* worker, no synthesis, final_response written by fallback_node alone); a decision
\* of true activates exactly the three research workers and never fallback_node.
C2_RoutingExclusive ==
    /\ npc["guardrail_node"] # "done" =>
          \A n \in Nodes \ {"guardrail_node"} : ~Started(n) /\ n \notin active
    /\ (npc["guardrail_node"] = "done" /\ ~st.is_research_request) =>
          /\ \A n \in ResearchNodes \cup {"synthesis_node"} : ~Started(n) /\ n \notin active
          /\ active \subseteq {"fallback_node"}
          /\ \A i \in 1..Len(writes) :
                "final_response" \in DOMAIN writes[i].upd => writes[i].node = "fallback_node"
          /\ (st.final_response # <<>> => npc["fallback_node"] = "done")
    /\ (npc["guardrail_node"] = "done" /\ st.is_research_request) =>
          /\ ~Started("fallback_node") /\ "fallback_node" \notin active
          /\ \A n \in ResearchNodes : n \in active \/ npc[n] = "done"

C2_Witness ==
    /\ ~st.is_research_request
    /\ npc["fallback_node"] = "done"
    /\ st.final_response # <<>>
    /\ agent_out["guardrail"].kind = "ok"

\* C3: when exactly one research agent call raised, the two successful results are
\* in the state synthesis_node reads, synthesis runs, and the run ends with the
\* synthesis node's response instead of failing.
C3_OneFailureIsolated ==
    Cardinality(Raised) = 1 =>
        /\ AllReported => ("synthesis_node" \in active \/ npc["synthesis_node"] = "done")
        /\ Started("synthesis_node") =>
              \A w \in Workers \ Raised :
                  /\ st[WorkerField(w)] = <<ResultText(agent_out[w].val)>>
                  /\ synthesis_prompt[w \o "_data"] = ResultText(agent_out[w].val)
        /\ wf = "finished" =>
              /\ npc["synthesis_node"] = "done"
              /\ \/ st.synthesis_complete
                 \/ Head(st.final_response) = "Synthesis error: "

C3_Witness ==
    /\ wf = "finished"
    /\ Raised = {"social"}
    /\ st.synthesis_complete
    /\ synthesis_prompt.seo_data = <<"findings">>
    /\ synthesis_prompt.competitor_data = <<"No response generated">>

\* C4: a failed guardrail classifier call yields is_research_request = false with
\* the failure recorded in routing_reason; the request goes on to fallback_node
\* and no research worker or synthesis runs.
C4_GuardrailFailsSafe ==
    agent_out["guardrail"].kind = "raised" =>
        /\ npc["guardrail_node"] = "returned" =>
              /\ writes[1].upd.is_research_request = FALSE
              /\ writes[1].upd.routing_reason = <<"Guardrail error: ">> \o agent_out["guardrail"].val
        /\ npc["guardrail_node"] = "done" =>
              /\ st.is_research_request = FALSE
              /\ st.routing_reason = <<"Guardrail error: ">> \o agent_out["guardrail"].val
              /\ ("fallback_node" \in active \/ npc["fallback_node"] = "done")
        /\ \A n \in ResearchNodes \cup {"synthesis_node"} : ~Started(n) /\ n \notin active

C4_Witness ==
    /\ agent_out["guardrail"].kind = "raised"
    /\ npc["fallback_node"] = "done"
    /\ wf = "finished"

IsPrefix(a, b) == Len(a) <= Len(b) /\ SubSeq(b, 1, Len(a)) = a

HasText(c) == "text" \in DOMAIN c

IsFinal(c) == "complete" \in DOMAIN c

TextChunks == SelectSeq(chunks, HasText)

\* C5: streaming output is append-only: of every two successive chunks carrying a
\* "text" field, the later text has the earlier text as a prefix, also when the
\* workflow fails partway through.
C5_AppendOnly ==
    \A i \in 1..(Len(TextChunks) - 1) : IsPrefix(TextChunks[i].text, TextChunks[i + 1].text)

\* C6: every stream whose workflow finished without raising ends with a trailing
\* metadata chunk carrying complete = true, for new and existing conversations and
\* also when the title update fails.
C6_CompleteHasFinalChunk ==
    spc = "complete" => (chunks # <<>> /\ IsFinal(chunks[Len(chunks)]))

\* C7: when the workflow raises after k >= 0 fragment chunks, the generator yields
\* exactly one further chunk (the error text) after the last fragment chunk and
\* ends in a terminal state; the exception does not escape the generator.
C7_RaiseEndsWithErrorChunk ==
    /\ wf = "raised" =>
          /\ spc = "errored"
          /\ chunks # <<>>
          /\ \E e \in Errs : chunks[Len(chunks)] = ErrorChunk(e)
          /\ \A i \in 1..(Len(chunks) - 1) : HasText(chunks[i]) /\ ~IsFinal(chunks[i])
          /\ Len(chunks) > 1 => chunks[Len(chunks) - 1] = TextChunk(full_response)
          /\ Len(chunks) = 1 => full_response = <<>>
    /\ spc \in {"errored", "complete"} => ~ENABLED Next

C7_Witness ==
    /\ wf = "raised"
    /\ Len(chunks) >= 3
    /\ npc["synthesis_node"] = "streaming"
    /\ nfrags > 0

\* C8: the final chunk reflects the path taken: routing_decision is "research" (or
\* another truthy marker) exactly for a request classified as research.
ResearchMarkers == {"research", "true", "True"}

C8_FinalChunkReflectsRouting ==
    \A i \in 1..Len(chunks) :
        IsFinal(chunks[i]) =>
            (chunks[i].routing_decision \in ResearchMarkers <=> st.is_research_request)

WorkerWrites == {i \in 1..Len(writes) : writes[i].node \in ResearchNodes}

\* The example agent that plays the part of the research node n
ExampleAgentOf(n) ==
    CASE n = "seo_research_node"        -> "seo_agent"
      [] n = "social_research_node"     -> "social_media_agent"
      [] n = "competitor_research_node" -> "competitor_agent"

ExampleKeys(n) == DOMAIN example_agent_return(ExampleAgentOf(n))

ExpectedEntry(w) ==
    IF agent_out[w].kind = "raised"
    THEN <<ErrorMarker(w)>> \o agent_out[w].val
    ELSE ResultText(agent_out[w].val)

\* C10: once all three workers have reported, each of seo_research, social_research
\* and competitor_research holds exactly one entry (the worker's result or error
\* text) whatever the completion order and outcomes; only the order of the three
\* tags in research_completed depends on the completion order.
C10_OneEntryPerWorker ==
    AllReported =>
        /\ \A w \in Workers :
              /\ Len(st[WorkerField(w)]) = 1
              /\ st[WorkerField(w)] = <<ExpectedEntry(w)>>
        /\ Len(st.research_completed) = 3
        /\ {st.research_completed[i] : i \in 1..3} = {Tag(w) : w \in Workers}

C10_Witness ==
    /\ AllReported
    /\ st.research_completed = <<"competitor_error", "social", "seo">>
    /\ st.seo_research = << <<"No response generated">> >>

SynthReturned == npc["synthesis_node"] \in {"returned", "done"}

\* What synthesis_node returned: its pending update, or the merged channels
SynthResult ==
    IF npc["synthesis_node"] = "returned"
    THEN writes[1].upd
    ELSE [ final_response     |-> st.final_response,
           synthesis_complete |-> st.synthesis_complete,
           message_history    |-> st.message_history ]

StreamRaised == agent_out["stream"].kind = "raised"

RunRaised == agent_out["run"].kind = "raised"

EndsWith(txt, tok) == txt # <<>> /\ txt[Len(txt)] = tok

\* C11: when the streamed synthesis call fails after zero or more fragments,
\* synthesis_node makes one non-streaming call, emits its whole text as a single
\* chunk right after the notice, and returns that text with synthesis_complete = true.
C11_StreamFailureFallsBack ==
    (Started("synthesis_node") /\ StreamRaised) =>
        /\ npc["synthesis_node"] \in {"fallback_run", "returned", "done"}
        /\ SynthReturned => agent_out["run"].kind # "none"
        /\ (SynthReturned /\ agent_out["run"].kind = "ok") =>
              /\ SynthResult.synthesis_complete
              /\ SynthResult.final_response = ResultText(agent_out["run"].val)
              /\ \E i \in 2..Len(chunks) :
                    /\ HasText(chunks[i - 1]) /\ HasText(chunks[i])
                    /\ EndsWith(chunks[i - 1].text, StreamingUnavailable)
                    /\ chunks[i].text = chunks[i - 1].text \o ResultText(agent_out["run"].val)

C11_Witness ==
    /\ wf = "finished"
    /\ npc["synthesis_node"] = "done"
    /\ StreamRaised
    /\ agent_out["run"] = [kind |-> "ok", val |-> <<"findings">>]
    /\ nfrags = MaxFrags
    /\ st.synthesis_complete

\* C12: synthesis_node returns an error result ("Synthesis error: ...",
\* synthesis_complete = false, empty message_history) exactly when both the streamed
\* call and the non-streaming call failed, and it returns instead of raising; in
\* every other case the final response is no error text.
C12_ErrorOnlyWhenBothFail ==
    /\ (Started("synthesis_node") /\ StreamRaised /\ RunRaised) => SynthReturned
    /\ SynthReturned =>
          IF StreamRaised /\ RunRaised
          THEN /\ SynthResult.final_response = <<"Synthesis error: ">> \o agent_out["run"].val
               /\ ~SynthResult.synthesis_complete
               /\ SynthResult.message_history = <<>>
          ELSE /\ SynthResult.synthesis_complete
               /\ SynthResult.message_history # <<>>
               /\ \/ SynthResult.final_response = <<>>
                  \/ Head(SynthResult.final_response) # "Synthesis error: "

C12_Witness ==
    /\ wf = "finished"
    /\ npc["synthesis_node"] = "done"
    /\ StreamRaised /\ RunRaised
    /\ st.final_response = <<"Synthesis error: ", "boom">>

WriteOf(w) == {i \in 1..Len(writes) : writes[i].node = NodeOf(w)}

TagsOf(w, tags) == {i \in 1..Len(tags) : tags[i] \in {w, w \o "_error"}}

\* C20: a research worker whose agent call raised returns (it does not raise) one
\* entry in its own field that starts with its error marker, and the "_error"
\* completion tag; a worker that succeeded returns the plain tag; each worker
\* produces exactly one completion tag per request.
C20_WorkerErrorIsData ==
    \A w \in Workers :
        /\ agent_out[w].kind = "none" =>
              /\ WriteOf(w) = {}
              /\ st[WorkerField(w)] = <<>>
              /\ TagsOf(w, st.research_completed) = {}
        /\ agent_out[w].kind # "none" =>
              /\ npc[NodeOf(w)] \in {"returned", "done"}
              /\ npc[NodeOf(w)] = "returned" =>
                    /\ Cardinality(WriteOf(w)) = 1
                    /\ TagsOf(w, st.research_completed) = {}
                    /\ \A i \in WriteOf(w) :
                          /\ DOMAIN writes[i].upd = {WorkerField(w), "research_completed"}
                          /\ Len(writes[i].upd[WorkerField(w)]) = 1
                          /\ agent_out[w].kind = "raised" =>
                                /\ writes[i].upd[WorkerField(w)][1]
                                      = <<ErrorMarker(w)>> \o agent_out[w].val
                                /\ writes[i].upd.research_completed = <<w \o "_error">>
                          /\ agent_out[w].kind = "ok" =>
                                writes[i].upd.research_completed = <<w>>
              /\ npc[NodeOf(w)] = "done" =>
                    /\ WriteOf(w) = {}
                    /\ Cardinality(TagsOf(w, st.research_completed)) = 1
                    /\ \A i \in TagsOf(w, st.research_completed) :
                          st.research_completed[i]
                              = (IF agent_out[w].kind = "raised" THEN w \o "_error" ELSE w)

C20_Witness ==
    /\ npc["seo_research_node"] = "returned"
    /\ npc["social_research_node"] = "returned"
    /\ npc["competitor_research_node"] = "awaiting"
    /\ agent_out["seo"].kind = "raised"
    /\ agent_out["social"].kind = "ok"
    /\ writes[1].node = "social_research_node"

ConversationKeys == {"is_research_request", "routing_reason", "final_response", "message_history"}

\* C21: on the conversational path (guardrail decision false) the worker fields
\* keep their initial values to the end of the request: seo_research,
\* social_research, competitor_research and research_completed stay empty and
\* synthesis_complete stays false; only the routing fields, final_response and
\* message_history may differ from create_api_initial_state.
C21_ConversationFrame ==
    (npc["guardrail_node"] = "done" /\ ~st.is_research_request) =>
        /\ \A k \in DOMAIN st \ ConversationKeys : st[k] = create_api_initial_state[k]
        /\ st.seo_research = <<>> /\ st.social_research = <<>> /\ st.competitor_research = <<>>
        /\ st.research_completed = <<>>
        /\ st.synthesis_complete = FALSE
        /\ wf = "finished" => final_state = st

C21_Witness ==
    /\ wf = "finished"
    /\ npc["fallback_node"] = "done"
    /\ ~st.is_research_request
    /\ st.final_response = <<"tok">>
    /\ st.message_history = <<"new_messages">>
    /\ st.routing_reason = <<"reasoning">>

\* ------------------------------- agents/*_research_agent.py, search_web
\* The workflow and the generator at rest, for the specifications of the other components
WorkflowIdle ==
    /\ st = create_api_initial_state
    /\ active = {}
    /\ npc = [n \in Nodes |-> "idle"]
    /\ writes = <<>>
    /\ wf = "pending"
    /\ agent_out = [w \in Agents \cup ResponderCalls |-> [kind |-> "none", val |-> <<>>]]
    /\ synthesis_prompt = NoState
    /\ node_full = <<>>
    /\ nfrags = 0
    /\ spc = "pending"
    /\ full_response = <<>>
    /\ final_state = NoState
    /\ chunks = <<>>
    /\ title_task = "none"
    /\ langfuse = FALSE
    /\ messages = <<>>

MaxRequested == 13

\* max_results values the model may ask for
Requested == (0 - MaxRequested)..MaxRequested

PyMax(a, b) == IF b > a THEN b ELSE a

PyMin(a, b) == IF b < a THEN b ELSE a

\* Variant: the social agent's copy lost the lower clamp
search_count_no_floor(agent, max_results) ==
    CASE agent = "seo"        -> PyMin(PyMax(max_results, 1), 10)
      [] agent = "social"     -> PyMin(max_results, 10)
      [] agent = "competitor" -> PyMin(PyMax(max_results, 1), 10)

\* search_web of each agent: max_results = min(max(max_results, 1), 10)
search_count(agent, max_results) ==
    CASE agent = "seo"        -> PyMin(PyMax(max_results, 1), 10)
      [] agent = "social"     -> PyMin(PyMax(max_results, 1), 10)
      [] agent = "competitor" -> PyMin(PyMax(max_results, 1), 10)

\* The model calls the tool of one of the agents with some max_results
InitSearch ==
    /\ WorkflowIdle
    /\ EndpointIdle
    /\ requests_table = 0
    /\ RateIdle
    /\ OthersIdle
    /\ \E a \in Workers, m \in Requested :
          search = [phase |-> "called", agent |-> a, max_results |-> m]

\* search_web up to its await of search_web_tool(count = max_results)
search_web_request ==
    /\ search.phase = "called"
    /\ search' = [ phase       |-> "requested",
                   agent       |-> search.agent,
                   max_results |-> search.max_results,
                   count       |-> search_count(search.agent, search.max_results) ]
    /\ UNCHANGED <<vars, endpoint_vars, requests_table, rq, other_components>>

\* search_web_tool answered, or raised and the except branch returned the error entry
search_web_return ==
    /\ search.phase = "requested"
    /\ \E outcome \in {"results", "search_failed"} :
          search' = [ phase       |-> "returned",
                      agent       |-> search.agent,
                      max_results |-> search.max_results,
                      count       |-> search.count,
                      result      |-> outcome ]
    /\ UNCHANGED <<vars, endpoint_vars, requests_table, rq, other_components>>

NextSearch ==
    \/ search_web_request
    \/ search_web_return

SpecSearch == InitSearch /\ [][NextSearch]_<<vars, outside_workflow>>

\* C13: for every integer max_results the count passed to the search request is
\* min(max(max_results, 1), 10): below 1 gives 1, above 10 gives 10, 1..10 pass
\* unchanged, the same for the three agents, and the tool returns instead of raising.
C13_CountClamped ==
    search.phase \in {"requested", "returned"} =>
        /\ search.count \in 1..10
        /\ search.max_results < 1 => search.count = 1
        /\ search.max_results > 10 => search.count = 10
        /\ search.max_results \in 1..10 => search.count = search.max_results
        /\ search.phase = "returned" => search.result \in {"results", "search_failed"}

C13_Witness ==
    /\ search.phase = "returned"
    /\ search.agent = "social"
    /\ search.max_results = -1
    /\ search.count = 1

\* ------------------------- api/endpoints.py, verify_token and the endpoint body
rate_limit == 5

MaxStored == 6

UserIds == {"u1", "u2"}

SessionIds == {"", "s1"}

\* The identity service answers 200, answers another status, or the call raises
AuthOutcomes == {"200", "non200", "raises"}

\* response.json() of a 200 answer: the token's user, with or without an "id"
TokenUsers == {[verified |-> TRUE, id |-> "u1"], [verified |-> TRUE, id |-> "None"]}

\* ErrorStreamBridge.stream_error: the message as text, then the final error chunk
stream_error(error_message, sid) ==
    << [text |-> error_message],
       [text |-> error_message, session_id |-> sid, error |-> error_message, complete |-> TRUE] >>

ErrorStream(error_message, sid) ==
    [kind |-> "stream", source |-> "stream_error", chunks |-> stream_error(error_message, sid)]

WorkflowStream(sid, record) ==
    [ kind          |-> "stream",
      source        |-> "stream_langgraph_response",
      initial_state |-> create_api_initial_state,
      session_id    |-> sid,
      title_task    |-> IF record THEN "task" ELSE "none" ]

HttpError(status_code) == [kind |-> "http_exception", status_code |-> status_code]

MismatchMessage == "User ID in request does not match authenticated user"

RateLimitMessage == "Rate limit exceeded. Please try again later."

\* Variant: any answer of the identity service is taken for the user
verify_token_accepts_any_answer(client, outcome) ==
    IF ~client THEN "401"
    ELSE IF outcome # "raises" THEN "user" ELSE "401"

\* verify_token: the 500 raised without a client and the 401 raised on a non-200
\* answer are both caught by its except branch, which raises 401
verify_token_result(client, outcome) ==
    IF ~client THEN "401"
    ELSE IF outcome = "200" THEN "user" ELSE "401"

\* Variant: the comparison of the two ids is skipped
user_id_matches_anyone(req, u) == TRUE

\* request.user_id != user.get("id")
user_id_matches(req, u) == req.user_id = u.id

\* Variant: the except branch refuses the request
check_rate_limit_fail_closed(request_count, raised) ==
    IF raised THEN FALSE ELSE request_count < rate_limit

\* Variant: the count may reach the limit
check_rate_limit_inclusive(request_count, raised) ==
    IF raised THEN TRUE ELSE request_count <= rate_limit

\* check_rate_limit: request_count < rate_limit, or True when the query raised
check_rate_limit(request_count, raised) ==
    IF raised THEN TRUE ELSE request_count < rate_limit

generate_session_id(user_id) == user_id \o "~random"

\* One request arrives; the requests table holds some rows of the user
InitEndpoint ==
    /\ WorkflowIdle
    /\ SearchIdle
    /\ RateIdle
    /\ OthersIdle
    /\ request \in [user_id : UserIds, session_id : SessionIds]
    /\ http_client \in BOOLEAN
    /\ auth_response = "not_called"
    /\ user = NoUser
    /\ epc = "received"
    /\ session_id = "unbound"
    /\ conversation_record = FALSE
    /\ db = <<>>
    /\ rate_check = [called |-> FALSE]
    /\ request_tracking_task = "none"
    /\ requests_table \in 0..MaxStored
    /\ error = "none"
    /\ response = NoResponse

\* Depends(verify_token): the endpoint body starts only if it returns the user
verify_token ==
    /\ epc = "received"
    /\ \E outcome \in AuthOutcomes, u \in TokenUsers :
          /\ auth_response' = IF http_client THEN outcome ELSE "not_called"
          /\ IF verify_token_result(http_client, outcome) = "user"
             THEN /\ user' = u
                  /\ epc' = "body"
                  /\ UNCHANGED response
             ELSE /\ response' = HttpError(401)
                  /\ epc' = "done"
                  /\ UNCHANGED user
    /\ UNCHANGED <<request, http_client, session_id, conversation_record, db, rate_check,
                   request_tracking_task, requests_table, error>>
    /\ UNCHANGED <<vars, search, rq, other_components>>

\* The body up to session_id = request.session_id: the user id comparison,
\* check_rate_limit and the creation of the store_request task
endpoint_admission ==
    /\ epc = "body"
    /\ IF ~user_id_matches(request, user)
       THEN /\ response' = ErrorStream(MismatchMessage, request.session_id)
            /\ epc' = "done"
            /\ UNCHANGED <<db, rate_check, request_tracking_task, session_id>>
       ELSE \E raised \in BOOLEAN :
               LET rate_limit_ok == check_rate_limit(requests_table, raised) IN
               /\ db' = Append(db, [op |-> "check_rate_limit", ok |-> ~raised])
               /\ rate_check' = [ called        |-> TRUE,
                                  request_count |-> requests_table,
                                  raised        |-> raised,
                                  rate_limit_ok |-> rate_limit_ok ]
               /\ IF ~rate_limit_ok
                  THEN /\ response' = ErrorStream(RateLimitMessage, request.session_id)
                       /\ epc' = "done"
                       /\ UNCHANGED <<request_tracking_task, session_id>>
                  ELSE /\ request_tracking_task' = "scheduled"
                       /\ session_id' = request.session_id
                       /\ epc' = "conversation"
                       /\ UNCHANGED response
    /\ UNCHANGED <<request, http_client, auth_response, user, conversation_record,
                   requests_table, error>>
    /\ UNCHANGED <<vars, search, rq, other_components>>

\* if not session_id: generate one and create the conversation
endpoint_conversation ==
    /\ epc = "conversation"
    /\ IF session_id = ""
       THEN /\ session_id' = generate_session_id(request.user_id)
            /\ \E ok \in BOOLEAN :
                  /\ db' = Append(db, [op |-> "create_conversation", ok |-> ok])
                  /\ IF ok
                     THEN /\ conversation_record' = TRUE
                          /\ epc' = "store_query"
                          /\ UNCHANGED error
                     ELSE /\ error' = "500: Failed to create conversation"
                          /\ epc' = "except"
                          /\ UNCHANGED conversation_record
       ELSE /\ epc' = "store_query"
            /\ UNCHANGED <<session_id, db, conversation_record, error>>
    /\ UNCHANGED <<request, http_client, auth_response, user, rate_check,
                   request_tracking_task, requests_table, response>>
    /\ UNCHANGED <<vars, search, rq, other_components>>

\* store_message for the user's query
endpoint_store_query ==
    /\ epc = "store_query"
    /\ \E ok \in BOOLEAN :
          /\ db' = Append(db, [op |-> "store_message_human", ok |-> ok])
          /\ IF ok
             THEN /\ epc' = "history"
                  /\ UNCHANGED error
             ELSE /\ error' = "500: Failed to store message"
                  /\ epc' = "except"
    /\ UNCHANGED <<request, http_client, auth_response, user, session_id, conversation_record,
                   rate_check, request_tracking_task, requests_table, response>>
    /\ UNCHANGED <<vars, search, rq, other_components>>

\* fetch_conversation_history, the conversion (which skips what it cannot convert),
\* the title task, the initial state and the StreamingResponse of the workflow
endpoint_history ==
    /\ epc = "history"
    /\ \E ok \in BOOLEAN :
          /\ db' = Append(db, [op |-> "fetch_conversation_history", ok |-> ok])
          /\ IF ok
             THEN /\ response' = WorkflowStream(session_id, conversation_record)
                  /\ epc' = "done"
                  /\ UNCHANGED error
             ELSE /\ error' = "500: Failed to fetch conversation history"
                  /\ epc' = "except"
                  /\ UNCHANGED response
    /\ UNCHANGED <<request, http_client, auth_response, user, session_id, conversation_record,
                   rate_check, request_tracking_task, requests_table>>
    /\ UNCHANGED <<vars, search, rq, other_components>>

\* The except branch: store the apology if there is a session id (the
\* store_message may raise again, out of the endpoint), then the error stream
endpoint_except ==
    /\ epc = "except"
    /\ IF session_id # ""
       THEN \E ok \in BOOLEAN :
               /\ db' = Append(db, [op |-> "store_message_ai", ok |-> ok])
               /\ response' = IF ok THEN ErrorStream("Error: " \o error, session_id)
                                    ELSE HttpError(500)
       ELSE /\ response' = ErrorStream("Error: " \o error, session_id)
            /\ UNCHANGED db
    /\ epc' = "done"
    /\ UNCHANGED <<request, http_client, auth_response, user, session_id, conversation_record,
                   rate_check, request_tracking_task, requests_table, error>>
    /\ UNCHANGED <<vars, search, rq, other_components>>

\* The store_request task runs: it inserts the row, or logs the failure
store_request ==
    /\ request_tracking_task = "scheduled"
    /\ request_tracking_task' = "finished"
    /\ \E ok \in BOOLEAN :
          /\ db' = Append(db, [op |-> "store_request", ok |-> ok])
          /\ requests_table' = IF ok THEN requests_table + 1 ELSE requests_table
    /\ UNCHANGED <<request, http_client, auth_response, user, epc, session_id,
                   conversation_record, rate_check, error, response>>
    /\ UNCHANGED <<vars, search, rq, other_components>>

NextEndpoint ==
    \/ verify_token
    \/ endpoint_admission
    \/ endpoint_conversation
    \/ endpoint_store_query
    \/ endpoint_history
    \/ endpoint_except
    \/ store_request

SpecEndpoint == InitEndpoint /\ [][NextEndpoint]_<<vars, outside_workflow>>

\* The persistence calls of the request that failed
Failed(ops) == {i \in DOMAIN db : db[i].op \in ops /\ ~db[i].ok}

PreStreamOps == {"create_conversation", "store_message_human", "fetch_conversation_history"}

IsWorkflowStream == response.kind = "stream" /\ response.source = "stream_langgraph_response"

IsErrorStream == response.kind = "stream" /\ response.source = "stream_error"

\* C14: when request.user_id differs from the authenticated user's id the request
\* is rejected before anything is executed: no rate-limit check, no request
\* tracking, no conversation, no stored message, no workflow; the response is the
\* error stream.
C14_MismatchRejected ==
    (user # NoUser /\ request.user_id # user.id) =>
        /\ db = <<>>
        /\ rate_check = [called |-> FALSE]
        /\ request_tracking_task = "none"
        /\ conversation_record = FALSE
        /\ ~IsWorkflowStream
        /\ epc = "done" => response = ErrorStream(MismatchMessage, request.session_id)

C14_Witness ==
    /\ epc = "done"
    /\ user # NoUser
    /\ request.user_id = "u2"
    /\ user.id = "u1"
    /\ IsErrorStream

\* C15: when the identity service answers with a non-200 status or the call
\* raises, verify_token raises 401 and the endpoint body never starts: nothing is
\* written to the persistence layer and no workflow is run.
C15_AuthFailureIs401 ==
    auth_response \in {"non200", "raises"} =>
        /\ response = HttpError(401)
        /\ epc = "done"
        /\ user = NoUser
        /\ db = <<>>
        /\ request_tracking_task = "none"
        /\ session_id = "unbound"

C15_Witness ==
    /\ auth_response = "non200"
    /\ response = HttpError(401)
    /\ epc = "done"

\* C16: a failure of create_conversation, of the store of the user's message or
\* of the history fetch is not fatal: the request still gets the workflow's stream.
C16_PersistenceFailureNonFatal ==
    (epc = "done" /\ Failed(PreStreamOps) # {}) => IsWorkflowStream

\* C17: check_rate_limit returns true whenever its query raises, otherwise true
\* exactly when the user's request count of the last minute is below rate_limit;
\* the endpoint goes on to the workflow only when it returned true, and answers
\* with the rate-limit error stream otherwise.
C17_RateLimitFailsOpen ==
    /\ rate_check.called =>
          /\ rate_check.raised => rate_check.rate_limit_ok
          /\ ~rate_check.raised => (rate_check.rate_limit_ok <=> rate_check.request_count < rate_limit)
          /\ ~rate_check.rate_limit_ok =>
                /\ response = ErrorStream(RateLimitMessage, request.session_id)
                /\ request_tracking_task = "none"
                /\ Len(db) = 1
    /\ (IsWorkflowStream \/ request_tracking_task # "none") =>
          rate_check.called /\ rate_check.rate_limit_ok

C17_Witness ==
    /\ rate_check.called
    /\ rate_check.raised
    /\ rate_check.request_count >= rate_limit
    /\ IsWorkflowStream

\* C19: every authenticated request gets a non-empty stream and no exception
\* leaves the endpoint; a failure before the stream gives the error stream, a text
\* chunk followed by a chunk with complete = true, also when the persistence layer
\* still fails while the error is handled.
C19_AlwaysAStream ==
    (epc = "done" /\ user # NoUser) =>
        /\ response.kind = "stream"
        /\ Failed(PreStreamOps) # {} =>
              /\ IsErrorStream
              /\ Len(response.chunks) = 2
              /\ response.chunks[2].complete

\* ------------------- concurrent requests of one user at check_rate_limit
NReq == 6

Reqs == 1..NReq

\* The requests whose handler passed check_rate_limit
Admitted == {r \in Reqs : rq[r] \in {"admitted", "admitted_unchecked", "stored", "lost"}}

\* The requests have passed verify_token and the user id comparison; the minute's
\* window has no row yet
InitRate ==
    /\ WorkflowIdle
    /\ SearchIdle
    /\ EndpointIdle
    /\ requests_table = 0
    /\ rq = [r \in Reqs |-> "arrived"]
    /\ OthersIdle

\* Handler of request r: check_rate_limit, then the error stream or
\* asyncio.create_task(store_request(...))
rate_admission(r) ==
    /\ rq[r] = "arrived"
    /\ \E raised \in BOOLEAN :
          rq' = [rq EXCEPT ![r] = IF ~check_rate_limit(requests_table, raised) THEN "rejected"
                                  ELSE IF raised THEN "admitted_unchecked"
                                  ELSE "admitted"]
    /\ UNCHANGED <<vars, search, endpoint_vars, requests_table, other_components>>

\* The store_request task of request r runs: it inserts the row, or logs the failure
rate_store_request(r) ==
    /\ rq[r] \in {"admitted", "admitted_unchecked"}
    /\ \E ok \in BOOLEAN :
          /\ rq' = [rq EXCEPT ![r] = IF ok THEN "stored" ELSE "lost"]
          /\ requests_table' = IF ok THEN requests_table + 1 ELSE requests_table
    /\ UNCHANGED <<vars, search, endpoint_vars, other_components>>

NextRate ==
    \/ \E r \in Reqs : rate_admission(r)
    \/ \E r \in Reqs : rate_store_request(r)

SpecRate == InitRate /\ [][NextRate]_<<vars, outside_workflow>>

\* C18: the count is read by the handler and the row is written later by the
\* store_request task: an admission whose query succeeded read a count below
\* rate_limit and wrote nothing, so concurrent handlers all read the same count
\* and more than rate_limit requests can be admitted in one window.
C18_AdmissionReadsWithoutWriting ==
    [][\A r \in Reqs :
          (rq[r] = "arrived" /\ rq'[r] = "admitted") =>
              /\ requests_table < rate_limit
              /\ requests_table' = requests_table]_<<vars, outside_workflow>>

C18_Witness ==
    /\ Cardinality(Admitted) > rate_limit
    /\ \A r \in Reqs : rq[r] \notin {"admitted_unchecked", "lost"}

\* C29: with the global HTTP client not initialised verify_token fails with
\* status 500, a server error distinct from the 401 of an invalid token.
C29_NoClientIs500 ==
    (~http_client /\ epc = "done") => response = HttpError(500)

\* C28: every request that reached streaming ends with exactly one stored "ai"
\* message whose content is the accumulated streamed text, or "No response
\* generated" when nothing was streamed.
C28_ResponseAlwaysStored ==
    spc \in {"errored", "complete"} =>
        /\ Len(messages) = 1
        /\ messages[1].message_type = "ai"
        /\ messages[1].content =
              (IF full_response = <<>> THEN <<"No response generated">> ELSE full_response)

\* The responder node that ran the non-streaming call and returned its result
FellBack(n) ==
    /\ npc[n] \in {"returned", "done"}
    /\ agent_out["stream"].kind = "raised"
    /\ agent_out["run"].kind = "ok"

\* The text of the non-streaming result
RunText ==
    IF agent_out["run"].val = <<>> THEN <<"No response generated">> ELSE agent_out["run"].val

\* What responder n returned as final_response
ReturnedResponse(n) ==
    IF npc[n] = "returned" THEN writes[1].upd.final_response ELSE st.final_response

\* txt holds k streamed fragments, the notice and then the text full, in that order
HoldsFallbackTrace(txt, k, full) ==
    \E i \in 1..Len(txt) :
        /\ i + k + Len(full) <= Len(txt)
        /\ \A j \in 0..(k - 1) : txt[i + j] \in Frags
        /\ txt[i + k] = StreamingUnavailable
        /\ SubSeq(txt, i + k + 1, i + k + Len(full)) = full

\* C30: after synthesis_node or fallback_node switched to the non-streaming call,
\* the final_response it returns is exactly the text of that call's result ("No
\* response generated" when it is empty) with none of the fragments streamed before
\* the failure, while the text accumulated by the HTTP stream holds those
\* fragments, the notice and the full text.
C30_FinalResponseDropsPartials ==
    \A n \in Responders :
        FellBack(n) =>
            /\ ReturnedResponse(n) = RunText
            /\ \A j \in 1..Len(ReturnedResponse(n)) :
                  /\ ReturnedResponse(n)[j] \notin Frags
                  /\ ReturnedResponse(n)[j] # StreamingUnavailable
            /\ HoldsFallbackTrace(full_response, nfrags, RunText)

C30_Witness ==
    /\ FellBack("fallback_node")
    /\ wf = "finished"
    /\ nfrags = MaxFrags
    /\ st.final_response = <<"No response generated">>
    /\ st.final_response # full_response
    /\ Len(full_response) > Len(st.final_response) + nfrags

\* ------------------------------------ api/endpoints.py, health_check
MaxProbes == 2

Connected(client) == IF client THEN "connected" ELSE "disconnected"

\* health_status["dependencies"]
health_dependencies ==
    [ embedding_client |-> Connected(embedding_client),
      supabase         |-> Connected(supabase),
      http_client      |-> Connected(http_client),
      title_agent      |-> Connected(title_agent) ]

\* Variant: one connected dependency is enough
all_connected_any(dependencies) ==
    \E k \in DOMAIN dependencies : dependencies[k] = "connected"

\* all(v == "connected" for v in health_status["dependencies"].values())
all_connected(dependencies) ==
    \A k \in DOMAIN dependencies : dependencies[k] = "connected"

\* Each of the four globals is set or still None; no probe has been served
InitHealth ==
    /\ WorkflowIdle
    /\ SearchIdle
    /\ RateIdle
    /\ BridgeIdle
    /\ HilIdle
    /\ request = [user_id |-> "", session_id |-> ""]
    /\ auth_response = "not_called"
    /\ user = NoUser
    /\ epc = "idle"
    /\ session_id = "unbound"
    /\ conversation_record = FALSE
    /\ db = <<>>
    /\ rate_check = [called |-> FALSE]
    /\ request_tracking_task = "none"
    /\ requests_table = 0
    /\ error = "none"
    /\ response = NoResponse
    /\ embedding_client \in BOOLEAN
    /\ supabase \in BOOLEAN
    /\ http_client \in BOOLEAN
    /\ title_agent \in BOOLEAN
    /\ health = [phase |-> "idle", served |-> 0]

HealthFrame ==
    /\ UNCHANGED <<embedding_client, supabase, title_agent>>
    /\ UNCHANGED <<vars, search, endpoint_vars, requests_table, rq, bridge_vars, hil_vars>>

\* GET /health arrives
health_check_call ==
    /\ health.phase \in {"idle", "responded"}
    /\ health.served < MaxProbes
    /\ health' = [phase |-> "called", served |-> health.served]
    /\ HealthFrame

\* health_status is built with status "healthy" and the dependencies
health_check_status ==
    /\ health.phase = "called"
    /\ health' = [ phase         |-> "status",
                   served        |-> health.served,
                   health_status |-> [status |-> "healthy", dependencies |-> health_dependencies] ]
    /\ HealthFrame

\* The test of the dependencies: HTTPException(503) with the status set to
\* "unhealthy" (re-raised as it is by the except HTTPException branch), or the
\* HealthCheckResponse
health_check_return ==
    /\ health.phase = "status"
    /\ IF ~all_connected(health.health_status.dependencies)
       THEN health' = [ phase         |-> "responded",
                        served        |-> health.served + 1,
                        status_code   |-> 503,
                        health_status |-> [health.health_status EXCEPT !.status = "unhealthy"] ]
       ELSE health' = [ phase         |-> "responded",
                        served        |-> health.served + 1,
                        status_code   |-> 200,
                        health_status |-> health.health_status ]
    /\ HealthFrame

NextHealth ==
    \/ health_check_call
    \/ health_check_status
    \/ health_check_return

SpecHealth == InitHealth /\ [][NextHealth]_<<vars, outside_workflow>>

AllInitialised == embedding_client /\ supabase /\ http_client /\ title_agent

\* C22: the health endpoint answers "unhealthy" with status 503 whenever at least
\* one of the embedding client, the persistence client, the HTTP client and the
\* title agent is not initialised, and "healthy" only when all four are connected.
C22_UnhealthyIffDisconnected ==
    health.phase = "responded" =>
        /\ ~AllInitialised =>
              /\ health.status_code = 503
              /\ health.health_status.status = "unhealthy"
        /\ AllInitialised =>
              /\ health.status_code = 200
              /\ health.health_status.status = "healthy"
        /\ health.health_status.dependencies.embedding_client = "connected" <=> embedding_client
        /\ health.health_status.dependencies.supabase = "connected" <=> supabase
        /\ health.health_status.dependencies.http_client = "connected" <=> http_client
        /\ health.health_status.dependencies.title_agent = "connected" <=> title_agent

C22_Witness ==
    /\ health.phase = "responded"
    /\ embedding_client /\ supabase /\ http_client /\ ~title_agent
    /\ health.status_code = 503
    /\ health.health_status.status = "unhealthy"

\* --------------------- api/streaming.py, StreamBridge and stream_workflow_response
MaxWrites == 2

\* final_data given to complete(): None, an empty dict, a dict with entries
FinalDatas == {"None", "empty", "summary"}

\* if self._final_data
Truthy(final_data) == final_data = "summary"

\* The n-th chunk the workflow writes
DataChunk(n) == [kind |-> "data", n |-> n]

\* The None put by complete()
EndSignal == [kind |-> "None"]

\* Variant: the final chunk is yielded whatever _final_data is
final_summary_always(final_data) == <<[kind |-> "final_summary", final_summary |-> final_data]>>

\* stream_http after its loop: the final_summary chunk, if _final_data is truthy
final_summary(final_data) ==
    IF Truthy(final_data)
    THEN <<[kind |-> "final_summary", final_summary |-> final_data]>>
    ELSE <<>>

\* stream_workflow_response has created the bridge
InitBridge ==
    /\ WorkflowIdle
    /\ SearchIdle
    /\ EndpointIdle
    /\ requests_table = 0
    /\ RateIdle
    /\ HealthIdle
    /\ HilIdle
    /\ workflow_task = "none"
    /\ written = <<>>
    /\ put_tasks = <<>>
    /\ bridge_chunks = <<>>
    /\ bridge_completed = FALSE
    /\ bridge_final_data = "None"
    /\ reader = "idle"
    /\ yielded = <<>>
    /\ generator = [pc |-> "start", errors |-> <<>>]

BridgeFrame ==
    UNCHANGED <<vars, search, endpoint_vars, requests_table, rq, health_vars, hil_vars>>

\* stream_workflow_response calls workflow_func and makes a task of the coroutine,
\* then iterates bridge.stream_http(), which waits in its first wait_for
stream_workflow_start ==
    /\ generator.pc = "start"
    /\ workflow_task' = "running"
    /\ reader' = "waiting"
    /\ generator' = [generator EXCEPT !.pc = "streaming"]
    /\ UNCHANGED <<written, put_tasks, bridge_chunks, bridge_completed, bridge_final_data,
                   yielded>>
    /\ BridgeFrame

\* The call workflow_func(...) itself raises, inside the try: the except branch
\* yields the error stream
stream_workflow_call_raises ==
    /\ generator.pc = "start"
    /\ workflow_task' = "raised"
    /\ generator' = [pc |-> "done", errors |-> stream_error("Workflow error: boom", "")]
    /\ UNCHANGED <<written, put_tasks, bridge_chunks, bridge_completed, bridge_final_data,
                   reader, yielded>>
    /\ BridgeFrame

\* The workflow calls bridge.write(data) with the loop running: the put is scheduled
StreamBridge_write ==
    /\ workflow_task = "running"
    /\ ~bridge_completed
    /\ Len(written) < MaxWrites
    /\ written' = Append(written, DataChunk(Len(written) + 1))
    /\ put_tasks' = Append(put_tasks, DataChunk(Len(written) + 1))
    /\ UNCHANGED <<workflow_task, bridge_chunks, bridge_completed, bridge_final_data,
                   reader, yielded, generator>>
    /\ BridgeFrame

\* The workflow calls bridge.complete(final_data): the flag and the data are set
\* at once, the put of None is scheduled
StreamBridge_complete ==
    /\ workflow_task = "running"
    /\ ~bridge_completed
    /\ \E final_data \in FinalDatas : bridge_final_data' = final_data
    /\ bridge_completed' = TRUE
    /\ put_tasks' = Append(put_tasks, EndSignal)
    /\ UNCHANGED <<workflow_task, written, bridge_chunks, reader, yielded, generator>>
    /\ BridgeFrame

\* workflow_func returns
workflow_func_returns ==
    /\ workflow_task = "running"
    /\ workflow_task' = "returned"
    /\ UNCHANGED <<written, put_tasks, bridge_chunks, bridge_completed, bridge_final_data,
                   reader, yielded, generator>>
    /\ BridgeFrame

\* workflow_func raises: the exception is kept in the task until it is awaited
workflow_func_raises ==
    /\ workflow_task = "running"
    /\ workflow_task' = "raised"
    /\ UNCHANGED <<written, put_tasks, bridge_chunks, bridge_completed, bridge_final_data,
                   reader, yielded, generator>>
    /\ BridgeFrame

\* The event loop runs the oldest scheduled _chunks.put
put_task_run ==
    /\ put_tasks # <<>>
    /\ bridge_chunks' = Append(bridge_chunks, Head(put_tasks))
    /\ put_tasks' = Tail(put_tasks)
    /\ UNCHANGED <<workflow_task, written, bridge_completed, bridge_final_data,
                   reader, yielded, generator>>
    /\ BridgeFrame

\* stream_http: the get returns a chunk, which is yielded, or None, which ends the loop
stream_http_get ==
    /\ reader = "waiting"
    /\ bridge_chunks # <<>>
    /\ bridge_chunks' = Tail(bridge_chunks)
    /\ IF Head(bridge_chunks) = EndSignal
       THEN /\ reader' = "after_loop"
            /\ UNCHANGED yielded
       ELSE /\ yielded' = Append(yielded, Head(bridge_chunks))
            /\ UNCHANGED reader
    /\ UNCHANGED <<workflow_task, written, put_tasks, bridge_completed, bridge_final_data,
                   generator>>
    /\ BridgeFrame

\* stream_http: the second passes with nothing in the queue, the wait_for times out
stream_http_timeout ==
    /\ reader = "waiting"
    /\ bridge_chunks = <<>>
    /\ reader' = "timed_out"
    /\ UNCHANGED <<workflow_task, written, put_tasks, bridge_chunks, bridge_completed,
                   bridge_final_data, yielded, generator>>
    /\ BridgeFrame

\* stream_http resumes in the except asyncio.TimeoutError branch
stream_http_timeout_check ==
    /\ reader = "timed_out"
    /\ reader' = IF bridge_completed THEN "after_loop" ELSE "waiting"
    /\ UNCHANGED <<workflow_task, written, put_tasks, bridge_chunks, bridge_completed,
                   bridge_final_data, yielded, generator>>
    /\ BridgeFrame

\* stream_http after the loop
stream_http_final ==
    /\ reader = "after_loop"
    /\ yielded' = yielded \o final_summary(bridge_final_data)
    /\ reader' = "done"
    /\ UNCHANGED <<workflow_task, written, put_tasks, bridge_chunks, bridge_completed,
                   bridge_final_data, generator>>
    /\ BridgeFrame

\* stream_workflow_response after its async for: await workflow_task, and the
\* except branch with the error stream if the task raised
stream_workflow_await ==
    /\ generator.pc = "streaming"
    /\ reader = "done"
    /\ workflow_task \in {"returned", "raised"}
    /\ generator' = [ pc     |-> "done",
                      errors |-> IF workflow_task = "raised"
                                 THEN stream_error("Workflow error: boom", "")
                                 ELSE <<>> ]
    /\ UNCHANGED <<workflow_task, written, put_tasks, bridge_chunks, bridge_completed,
                   bridge_final_data, reader, yielded>>
    /\ BridgeFrame

NextBridge ==
    \/ stream_workflow_start
    \/ stream_workflow_call_raises
    \/ StreamBridge_write
    \/ StreamBridge_complete
    \/ workflow_func_returns
    \/ workflow_func_raises
    \/ put_task_run
    \/ stream_http_get
    \/ stream_http_timeout
    \/ stream_http_timeout_check
    \/ stream_http_final
    \/ stream_workflow_await

bridge_all == <<vars, outside_workflow>>

SpecBridge == InitBridge /\ [][NextBridge]_bridge_all

\* The event loop runs every scheduled put and resumes the reader and the
\* generator whenever they can go on; the workflow is not required to make progress
SpecBridgeFair ==
    /\ SpecBridge
    /\ WF_bridge_all(stream_workflow_start \/ stream_workflow_call_raises)
    /\ WF_bridge_all(put_task_run)
    /\ WF_bridge_all(stream_http_get)
    /\ WF_bridge_all(stream_http_timeout)
    /\ WF_bridge_all(stream_http_timeout_check)
    /\ WF_bridge_all(stream_http_final)
    /\ WF_bridge_all(stream_workflow_await)

IsData(c) == c.kind = "data"

IsFinalSummary(c) == c.kind = "final_summary"

\* C23: when workflow_func raises without having called bridge.complete(),
\* stream_workflow_response yields the two error chunks and ends; it does not wait
\* on the bridge queue for ever.
C23_WorkflowErrorIsStreamed ==
    (workflow_task = "raised" /\ ~bridge_completed)
        ~> (generator.pc = "done" /\ generator.errors = stream_error("Workflow error: boom", ""))

\* C24: for every sequence of write() calls followed by complete(), stream_http
\* has yielded exactly the written chunks, once each and in write order, when it ends.
C24_NoLossNoReorder ==
    (reader \in {"after_loop", "done"} /\ bridge_completed) =>
        SelectSeq(yielded, IsData) = written

\* C25: once complete() has been called stream_http ends; the final_summary chunk
\* is yielded exactly once and as the very last chunk when complete() was given
\* non-empty final_data, and not at all otherwise.
C25_CompleteEndsTheStream ==
    /\ bridge_completed ~> (reader = "done")
    /\ [](reader # "done" => SelectSeq(yielded, IsFinalSummary) = <<>>)
    /\ [](reader = "done" =>
            IF bridge_final_data = "summary"
            THEN /\ yielded # <<>>
                 /\ yielded[Len(yielded)] =
                       [kind |-> "final_summary", final_summary |-> bridge_final_data]
                 /\ Len(SelectSeq(yielded, IsFinalSummary)) = 1
            ELSE SelectSeq(yielded, IsFinalSummary) = <<>>)

C25_Witness ==
    /\ reader = "done"
    /\ bridge_final_data = "summary"
    /\ Len(yielded) = MaxWrites + 1
    /\ yielded[Len(yielded)].kind = "final_summary"

\* --------------------- human_in_loop_agent/agent.py
\* Requests, as the set of the words they contain that tool_execution_agent looks for
Requests == {{}, {"meeting"}, {"email"}, {"purchase"}, {"delete"}, {"meeting", "email"}}

\* The phrases of the model's risk analysis that risk_assessment_agent looks for
RiskPhrases == {"HIGH RISK", "MEDIUM RISK", "Approval Required: YES"}

Decisions == {"APPROVE", "approve", "MODIFY", "REJECT", "maybe"}

Feedbacks == {"", "fewer"}

\* What the caller resumes the interrupt with: nothing, a dict with or without
\* a decision, or a value that is no dict
HumanInputs ==
    {[kind |-> "None"], [kind |-> "str"]}
    \cup {[kind |-> "dict", value |-> [feedback |-> f]] : f \in Feedbacks}
    \cup {[kind |-> "dict", value |-> [decision |-> d, feedback |-> f]] :
              d \in Decisions, f \in Feedbacks}

\* str.upper()
Upper(d) ==
    CASE d = "approve" -> "APPROVE"
      [] d = "maybe"   -> "MAYBE"
      [] OTHER         -> d

HumanMessage(content) == [type |-> "human", content |-> content]

AIMessage(content) == [type |-> "ai", content |-> content]

\* The channels declared with operator.add
HilAddChannels == {"messages", "execution_log"}

\* A node's update written to the channels of HumanInLoopState
HilUpdate(s, upd) ==
    [k \in DOMAIN s \cup DOMAIN upd |->
        IF k \notin DOMAIN upd THEN s[k]
        ELSE IF k \in HilAddChannels THEN s[k] \o upd[k]
        ELSE upd[k]]

\* risk_assessment_agent, given the content of the model's response
risk_assessment_update(risk_analysis) ==
    LET approval_required ==
            "HIGH RISK" \in risk_analysis \/ "Approval Required: YES" \in risk_analysis
        risk_level == IF "HIGH RISK" \in risk_analysis THEN "HIGH"
                      ELSE IF "MEDIUM RISK" \in risk_analysis THEN "MEDIUM"
                      ELSE "LOW"
    IN  [ messages          |-> <<AIMessage([text |-> "Risk Assessment", risk_analysis |-> risk_analysis])>>,
          risk_level        |-> risk_level,
          approval_required |-> approval_required,
          execution_log     |-> <<[stage |-> "risk_assessment", risk_level |-> risk_level,
                                   approval_required |-> approval_required]>> ]

\* approval_gate_agent once interrupt() has returned input, a dict or a falsy value
approval_gate_update(s, input) ==
    IF Get(s, "approval_required", FALSE)
    THEN IF input.kind = "dict"
         THEN LET decision == Upper(Get(input.value, "decision", "REJECT"))
                  feedback == Get(input.value, "feedback", "")
              IN  [ messages       |-> <<AIMessage([text |-> "Human Decision", decision |-> decision,
                                                    feedback |-> feedback])>>,
                    human_feedback |-> feedback,
                    pending_action |-> decision,
                    execution_log  |-> <<[stage |-> "human_approval", decision |-> decision,
                                          feedback |-> feedback]>> ]
         ELSE [ messages       |-> <<AIMessage([text |-> "No human approval received - Action rejected"])>>,
                human_feedback |-> "No response",
                pending_action |-> "REJECT",
                execution_log  |-> <<[stage |-> "human_approval", decision |-> "REJECT",
                                      reason |-> "no_response"]>> ]
    ELSE [ messages       |-> <<AIMessage([text |-> "Auto-approved", risk_level |-> Get(s, "risk_level", "LOW")])>>,
           pending_action |-> "APPROVE",
           execution_log  |-> <<[stage |-> "auto_approval", risk_level |-> Get(s, "risk_level", "LOW")]>> ]

\* The tool chosen from the first message of the thread
execution_result(original_request) ==
    IF "email" \in original_request THEN "Email sent with approval"
    ELSE IF "purchase" \in original_request THEN "Purchase completed with approval"
    ELSE IF "delete" \in original_request THEN "Data deletion completed with approval"
    ELSE IF "meeting" \in original_request THEN "Meeting scheduled"
    ELSE "Action executed successfully"

tool_execution_update(s) ==
    LET pending_action == Get(s, "pending_action", "REJECT")
        human_feedback == Get(s, "human_feedback", "")
    IN  IF pending_action = "REJECT"
        THEN [ messages      |-> <<AIMessage([text |-> "Action rejected. No tools executed."])>>,
               execution_log |-> <<[stage |-> "execution", status |-> "rejected"]>> ]
        ELSE IF pending_action = "MODIFY"
        THEN [ messages      |-> <<AIMessage([text |-> "Executing modified action", feedback |-> human_feedback])>>,
               execution_log |-> <<[stage |-> "execution", status |-> "modified",
                                    action |-> human_feedback]>> ]
        ELSE IF pending_action = "APPROVE"
        THEN [ messages      |-> <<AIMessage([text |-> execution_result(s.messages[1].content)])>>,
               execution_log |-> <<[stage |-> "execution", status |-> "completed",
                                    result |-> execution_result(s.messages[1].content)]>> ]
        ELSE [ messages      |-> <<AIMessage([text |-> "Unknown action status"])>>,
               execution_log |-> <<[stage |-> "execution", status |-> "error",
                                    reason |-> "unknown_action"]>> ]

route_after_assessment(s) ==
    IF Get(s, "approval_required", FALSE) THEN "approval_gate" ELSE "tool_execution"

\* Variant: every decision is routed to tool_execution
route_after_approval_always(s) == "tool_execution"

route_after_approval(s) ==
    IF Get(s, "pending_action", "REJECT") \in {"APPROVE", "MODIFY"}
    THEN "tool_execution"
    ELSE "END"

\* graph.astream({"messages": [HumanMessage(query)]}, config) on a new thread:
\* the operator.add channels hold their lists, the other channels hold nothing
InitHil ==
    /\ WorkflowIdle
    /\ SearchIdle
    /\ EndpointIdle
    /\ requests_table = 0
    /\ RateIdle
    /\ HealthIdle
    /\ BridgeIdle
    /\ \E query \in Requests :
          hil_state = [messages |-> <<HumanMessage(query)>>, execution_log |-> <<>>]
    /\ hil_pc = "risk_assessment"
    /\ human_input = [kind |-> "not_asked"]
    /\ hil_ran = <<>>

HilFrame ==
    UNCHANGED <<vars, search, endpoint_vars, requests_table, rq, health_vars, bridge_vars>>

\* The risk_assessment node and its conditional edge; the graph stops before
\* approval_gate (interrupt_before)
risk_assessment_agent ==
    /\ hil_pc = "risk_assessment"
    /\ \E risk_analysis \in SUBSET RiskPhrases :
          LET s == HilUpdate(hil_state, risk_assessment_update(risk_analysis))
          IN  /\ hil_state' = s
              /\ hil_pc' = IF route_after_assessment(s) = "approval_gate"
                           THEN "before_approval_gate"
                           ELSE "tool_execution"
    /\ hil_ran' = Append(hil_ran, "risk_assessment")
    /\ UNCHANGED human_input
    /\ HilFrame

\* The caller resumes the thread: approval_gate runs up to interrupt(), which
\* stops the graph again with the approval prompt
approval_gate_interrupt ==
    /\ hil_pc = "before_approval_gate"
    /\ hil_pc' = "interrupted"
    /\ UNCHANGED <<hil_state, human_input, hil_ran>>
    /\ HilFrame

\* The caller resumes with a value: approval_gate runs again, interrupt() returns
\* the value, and the conditional edge is taken; a value that is neither falsy
\* nor a dict has no get() and the node raises
approval_gate_agent ==
    /\ hil_pc = "interrupted"
    /\ \E input \in HumanInputs :
          /\ human_input' = input
          /\ IF input.kind = "str"
             THEN /\ hil_pc' = "error"
                  /\ UNCHANGED <<hil_state, hil_ran>>
             ELSE LET s == HilUpdate(hil_state, approval_gate_update(hil_state, input))
                  IN  /\ hil_state' = s
                      /\ hil_pc' = route_after_approval(s)
                      /\ hil_ran' = Append(hil_ran, "approval_gate")
    /\ HilFrame

\* The tool_execution node and its edge to END
tool_execution_agent ==
    /\ hil_pc = "tool_execution"
    /\ hil_state' = HilUpdate(hil_state, tool_execution_update(hil_state))
    /\ hil_pc' = "END"
    /\ hil_ran' = Append(hil_ran, "tool_execution")
    /\ UNCHANGED human_input
    /\ HilFrame

NextHil ==
    \/ risk_assessment_agent
    \/ approval_gate_interrupt
    \/ approval_gate_agent
    \/ tool_execution_agent

SpecHil == InitHil /\ [][NextHil]_<<vars, outside_workflow>>

\* The status of the last entry of the execution log
LastStatus(s) == Get(s.execution_log[Len(s.execution_log)], "status", "none")

\* C26: a request assessed as not requiring approval is executed: on the path
\* risk_assessment -> tool_execution the execution log ends with an entry of
\* status "completed", not "rejected".
C26_LowRiskIsExecuted ==
    (hil_pc = "END" /\ hil_ran = <<"risk_assessment", "tool_execution">>) =>
        LastStatus(hil_state) = "completed"

\* The decision recorded by approval_gate is APPROVE or MODIFY
RecordedApproval ==
    \E i \in 1..Len(hil_state.execution_log) :
        /\ Get(hil_state.execution_log[i], "stage", "") = "human_approval"
        /\ Get(hil_state.execution_log[i], "decision", "") \in {"APPROVE", "MODIFY"}

\* tool_execution has run or the log says that the action was carried out
Executed ==
    \/ \E i \in 1..Len(hil_ran) : hil_ran[i] = "tool_execution"
    \/ hil_pc = "tool_execution"
    \/ \E i \in 1..Len(hil_state.execution_log) :
          Get(hil_state.execution_log[i], "status", "") \in {"completed", "modified"}

\* C27: when the risk assessment set approval_required, tool_execution is reached,
\* and the log has an entry of status "completed" or "modified", only if the
\* decision recorded at the approval gate is APPROVE or MODIFY; with REJECT, an
\* unrecognised decision or no human input the workflow ends without either.
C27_NoExecutionWithoutApproval ==
    (hil_pc # "idle" /\ Get(hil_state, "approval_required", FALSE)) =>
        /\ Executed => RecordedApproval
        /\ (/\ human_input.kind \in {"None", "dict"}
            /\ \/ human_input.kind = "None"
               \/ Upper(Get(human_input.value, "decision", "REJECT")) \notin {"APPROVE", "MODIFY"})
           => (hil_pc = "END" /\ ~Executed)

C27_Witness ==
    /\ hil_pc = "END"
    /\ Get(hil_state, "approval_required", FALSE)
    /\ human_input.kind = "dict"
    /\ Get(human_input.value, "decision", "REJECT") = "maybe"
    /\ hil_ran = <<"risk_assessment", "approval_gate">>

====
